---- MODULE Spec2Model ----
(***************************************************************************)
(* bin/qc.py: the QC metrics of one sample of an amplicon sequencing run.  *)
(* main resolves the primers into amplicons, aggregates the per-position   *)
(* depth, analyses the N bases of the consensus, writes one CSV record and *)
(* then draws the plot.  A run is one pass through main; an uncaught       *)
(* exception ends it.                                                      *)
(*                                                                         *)
(* Python values are modelled as follows.  A dict is a sequence of entries *)
(* in insertion order.  A number that reaches the CSV record is a tagged   *)
(* value [t, s, n, d]: a str s, an int n, or a float n/d kept exact.  A    *)
(* function that can raise returns [exc, val], exc = "none" on return.     *)
(* A field of a text row that the code passes through int() is held as the *)
(* integer it denotes.  A file main reads is chosen when main reads it.    *)
(***************************************************************************)
EXTENDS Integers, Sequences, FiniteSets, TLC

\* ------------------------------------------------------------- bounds
MaxRefLen == 3
MaxDepth == 1
MaxSeqLen == 2

\* ------------------------------------------------- program constants
primer_name_delimiter == "_"
amplicon_number_offset == 2
SlidingWindow == 10
amplicon_pool_colors == {"1", "2"}

\* ------------------------------------------------------ tagged values
StrV(s) == [t |-> "str", s |-> s, n |-> 0, d |-> 1]
IntV(n) == [t |-> "int", s |-> "", n |-> n, d |-> 1]
FloatV(n, d) == [t |-> "float", s |-> "", n |-> n, d |-> d]

Ok(v) == [exc |-> "none", val |-> v]
Raise(e, v) == [exc |-> e, val |-> v]

Abs(x) == IF x < 0 THEN -x ELSE x

\* n/d rounded to the nearest integer, ties to even (n >= 0, d > 0)
RoundHalfEven(n, d) ==
    LET q == n \div d
        r == n % d
    IN  IF 2 * r < d THEN q
        ELSE IF 2 * r > d THEN q + 1
        ELSE IF q % 2 = 0 THEN q ELSE q + 1

TwoDigits(k) == IF k < 10 THEN "0" \o ToString(k) ELSE ToString(k)

\* "{:.2f}".format(v) of an int or a float v (a float of denominator d # 0;
\* the quotient of a count by a negative length carries the sign, -0.0 too)
Fmt2(v) ==
    LET h == RoundHalfEven(Abs(v.n) * 100, Abs(v.d))
        sign == IF v.d < 0 \/ v.n < 0 THEN "-" ELSE ""
    IN  sign \o ToString(h \div 100) \o "." \o TwoDigits(h % 100)

\* str(v), as csv.DictWriter writes a value
Render(v) ==
    IF v.t = "str" THEN v.s
    ELSE IF v.t = "int" THEN ToString(v.n)
    ELSE LET h == RoundHalfEven(Abs(v.n) * 10, Abs(v.d))
         IN  (IF v.n < 0 THEN "-" ELSE "") \o ToString(h \div 10) \o "." \o ToString(h % 10)

RECURSIVE JoinChars(_)
JoinChars(cs) == IF cs = <<>> THEN "" ELSE Head(cs) \o JoinChars(Tail(cs))

\* str.split(delim) of a name held as a sequence of characters
RECURSIVE SplitFrom(_, _, _, _, _)
SplitFrom(s, delim, i, cur, acc) ==
    IF i > Len(s) THEN Append(acc, cur)
    ELSE IF s[i] = delim THEN SplitFrom(s, delim, i + 1, <<>>, Append(acc, cur))
    ELSE SplitFrom(s, delim, i + 1, Append(cur, s[i]), acc)

Split(s, delim) == SplitFrom(s, delim, 1, <<>>, <<>>)

\* sorted(xs)
RECURSIVE InsertSorted(_, _)
InsertSorted(x, xs) ==
    IF xs = <<>> THEN <<x>>
    ELSE IF x <= Head(xs) THEN <<x>> \o xs
    ELSE <<Head(xs)>> \o InsertSorted(x, Tail(xs))

RECURSIVE Sorted(_)
Sorted(xs) == IF xs = <<>> THEN <<>> ELSE InsertSorted(Head(xs), Sorted(Tail(xs)))

\* statistics.median: the middle value (an int), or the mean of the two
\* middle values (a float); StatisticsError on no data
Median(xs) ==
    LET data == Sorted(xs)
        n == Len(data)
    IN  IF n = 0 THEN Raise("StatisticsError", IntV(0))
        ELSE IF n % 2 = 1 THEN Ok(IntV(data[(n \div 2) + 1]))
        ELSE Ok(FloatV(data[n \div 2] + data[(n \div 2) + 1], 2))

\* -------------------------------------------------- primers, amplicons
\* primer_pairs[left] = right; primer_pairs[right] = left
PairsPut(m, row) ==
    [k \in DOMAIN m \cup {row[1], row[2]} |->
        IF k = row[2] THEN row[1] ELSE IF k = row[1] THEN row[2] ELSE m[k]]

RECURSIVE ReadPairsFrom(_, _, _)
ReadPairsFrom(rows, i, m) ==
    IF i > Len(rows) THEN Ok(m)
    ELSE IF Len(rows[i]) # 2 THEN Raise("ValueError", m)
    ELSE ReadPairsFrom(rows, i + 1, PairsPut(m, rows[i]))

ReadPairs(rows) == ReadPairsFrom(rows, 1, <<>>)

HasName(ps, name) == \E i \in 1..Len(ps) : ps[i].name = name
ByName(ps, name) == ps[CHOOSE i \in 1..Len(ps) : ps[i].name = name]

\* primers_by_name[name] = {...}
PutPrimer(ps, p) ==
    IF HasName(ps, p.name)
    THEN [i \in 1..Len(ps) |-> IF ps[i].name = p.name THEN p ELSE ps[i]]
    ELSE Append(ps, p)

RECURSIVE ReadBedFrom(_, _, _, _)
ReadBedFrom(rows, i, pairs, ps) ==
    IF i > Len(rows) THEN Ok(ps)
    ELSE LET f == rows[i]
             fields == Split(f.name, primer_name_delimiter)
         IN  IF f.name \notin DOMAIN pairs THEN Raise("KeyError", ps)
             ELSE IF Len(fields) < amplicon_number_offset + 1 THEN Raise("IndexError", ps)
             ELSE ReadBedFrom(rows, i + 1, pairs,
                    PutPrimer(ps, [name |-> f.name,
                                   pair_name |-> pairs[f.name],
                                   start |-> f.start,
                                   end |-> f.end,
                                   amplicon_number |-> fields[amplicon_number_offset + 1],
                                   pool |-> f.pool,
                                   orientation |-> f.orientation]))

read_primers(bed, pairsfile) ==
    LET pr == ReadPairs(pairsfile)
    IN  IF pr.exc # "none" THEN Raise(pr.exc, <<>>)
        ELSE ReadBedFrom(bed, 1, pr.val, <<>>)

\* the amplicon of a forward primer and the primer named as its pair,
\* with the insert taken from the forward primer's start
AmpliconFromStart(primer, pair) ==
    [number |-> primer.amplicon_number,
     start |-> primer.start,
     end |-> pair.start,
     length |-> pair.start - primer.start,
     pool |-> primer.pool]

\* the amplicon of a forward primer and the primer named as its pair
AmpliconOf(primer, pair) ==
    [number |-> primer.amplicon_number,
     start |-> primer.end,
     end |-> pair.start,
     length |-> pair.start - primer.end,
     pool |-> primer.pool]

HasNumber(as, num) == \E i \in 1..Len(as) : as[i].number = num

\* amplicons[amplicon_number] = {...}
PutAmplicon(as, a) ==
    IF HasNumber(as, a.number)
    THEN [i \in 1..Len(as) |-> IF as[i].number = a.number THEN a ELSE as[i]]
    ELSE Append(as, a)

IsForward(p) == p.orientation = "+"

RECURSIVE AmpliconsFrom(_, _, _, _)
AmpliconsFrom(fwd, i, ps, as) ==
    IF i > Len(fwd) THEN Ok(as)
    ELSE IF ~HasName(ps, fwd[i].pair_name) THEN Raise("KeyError", as)
    ELSE AmpliconsFrom(fwd, i + 1, ps,
            PutAmplicon(as, AmpliconOf(fwd[i], ByName(ps, fwd[i].pair_name))))

primers_to_amplicons(ps) == AmpliconsFrom(SelectSeq(ps, IsForward), 1, ps, <<>>)

\* min(primers.values(), key=start)['start'], max(..., key=end)['end']
LowestStart(ps) == CHOOSE s \in {ps[i].start : i \in 1..Len(ps)} :
                      \A i \in 1..Len(ps) : s <= ps[i].start
HighestEnd(ps) == CHOOSE e \in {ps[i].end : i \in 1..Len(ps)} :
                      \A i \in 1..Len(ps) : e >= ps[i].end

\* ---------------------------------------------------------------- depth
get_covered_pos(pos_depth, mind) ==
    Len(SelectSeq(pos_depth, LAMBDA r : r.depth >= mind))

get_amplicon_covered_pos(pos_depth, mind, lowest, highest) ==
    [counter |-> Len(SelectSeq(pos_depth,
                    LAMBDA r : lowest <= r.pos /\ r.pos <= highest /\ r.depth >= mind)),
     amplicon_length |-> highest - lowest]

DepthValues(rows) == [i \in 1..Len(rows) |-> rows[i].depth]

get_median_depth(dp) ==
    IF Len(dp) > 0 THEN Median(DepthValues(dp)) ELSE Ok(IntV(0))

calculate_amplicon_median_depth(dp, amplicon_start, amplicon_end) ==
    IF Len(dp) > 0
    THEN Median(DepthValues(SelectSeq(dp,
            LAMBDA r : amplicon_start <= r.pos /\ r.pos <= amplicon_end)))
    ELSE Ok(IntV(0))

\* the loop of main over amplicons.items()
RECURSIVE AmpliconMediansFrom(_, _, _, _)
AmpliconMediansFrom(as, i, dp, acc) ==
    IF i > Len(as) THEN Ok(acc)
    ELSE LET m == calculate_amplicon_median_depth(dp, as[i].start, as[i].end)
         IN  IF m.exc # "none" THEN Raise(m.exc, acc)
             ELSE AmpliconMediansFrom(as, i + 1, dp,
                     Append(acc, [number |-> as[i].number, depth |-> m.val]))

\* depth_df['depth'] of make_qc_plot: one entry per reference position, 0
\* where the depth rows name none (a row beyond the frame is not modelled:
\* the rows' positions lie in 1..ref_length)
DepthSeries(dp, reflen) ==
    [p \in 1..reflen |->
        IF \E i \in 1..Len(dp) : dp[i].pos = p
        THEN dp[CHOOSE i \in 1..Len(dp) :
                    dp[i].pos = p /\ \A j \in (i + 1)..Len(dp) : dp[j].pos # p].depth
        ELSE 0]

\* ------------------------------------------------------------ consensus
Lower(c) == IF c = "N" THEN "n" ELSE IF c = "A" THEN "a" ELSE c

\* 0-based indices of the n of seq.lower(), in order
get_N_positions(seq) ==
    LET idx == [i \in 1..Len(seq) |-> i - 1]
    IN  SelectSeq(idx, LAMBDA i : Lower(seq[i + 1]) = "n")

get_pct_N_bases(seq) ==
    LET count_N == Len(get_N_positions(seq))
    IN  IF Len(seq) = 0 THEN Raise("ZeroDivisionError", FloatV(0, 1))
        ELSE Ok(FloatV(count_N * 100, Len(seq)))

get_largest_N_gap(seq) ==
    LET n_pos == <<0>> \o get_N_positions(seq) \o <<Len(seq)>>
        n_gaps == [k \in 1..(Len(n_pos) - 1) |-> n_pos[k + 1] - n_pos[k]]
        s == Sorted(n_gaps)
    IN  s[Len(s)]

Min(a, b) == IF a < b THEN a ELSE b

sliding_window_N_density(seq, window) ==
    [k \in 1..Len(seq) |->
        LET i == k - 1
            window_seq == SubSeq(seq, i + 1, Min(i + window, Len(seq)))
            n_count == Len(SelectSeq(window_seq, LAMBDA c : Lower(c) = "n"))
        IN  [window_mid |-> FloatV(2 * i + window, 2),
             n_density |-> FloatV(n_count, window)]]

\* lines 260-267 of main: the ambiguity metrics and the verdict, with the
\* guard on the empty consensus left out
AmbiguityMetricsUnguarded(seq) ==
    LET p == get_pct_N_bases(seq)
    IN  IF p.exc # "none"
        THEN Raise(p.exc, [pct_N_bases |-> IntV(0), largest_N_gap |-> 0, qc_pass |-> "FALSE"])
        ELSE Ok([pct_N_bases |-> p.val,
                 largest_N_gap |-> get_largest_N_gap(seq),
                 qc_pass |-> "FALSE"])

\* lines 260-267 of main: the ambiguity metrics and the verdict
AmbiguityMetrics(seq) ==
    IF Len(seq) # 0
    THEN LET p == get_pct_N_bases(seq)
         IN  IF p.exc # "none"
             THEN Raise(p.exc, [pct_N_bases |-> IntV(0), largest_N_gap |-> 0, qc_pass |-> "FALSE"])
             ELSE Ok([pct_N_bases |-> p.val,
                      largest_N_gap |-> get_largest_N_gap(seq),
                      qc_pass |-> "FALSE"])
    ELSE Ok([pct_N_bases |-> IntV(0), largest_N_gap |-> 0, qc_pass |-> "FALSE"])

\* --------------------------------------------------------------- inputs
\* primer names, as sequences of characters
L1 == <<"v", "_", "a", "_", "1", "_", "L">>
R1 == <<"v", "_", "a", "_", "1", "_", "R">>
L2 == <<"v", "_", "a", "_", "2", "_", "L">>
R2 == <<"v", "_", "a", "_", "2", "_", "R">>
ShortName == <<"v", "_", "1">>

BedRow(s, e, name, pool, o) ==
    [start |-> s, end |-> e, name |-> name, pool |-> pool, orientation |-> o]

\* two tiled amplicons, pools 1 and 2
TiledPrimers ==
    [pairs |-> << <<L1, R1>>, <<L2, R2>> >>,
     bed |-> << BedRow(0, 1, L1, "1", "+"), BedRow(2, 3, R1, "1", "-"),
                BedRow(1, 2, L2, "2", "+"), BedRow(3, 4, R2, "2", "-") >>]

\* one pair whose lowest primer starts at 1
ShiftedPrimers ==
    [pairs |-> << <<L1, R1>> >>,
     bed |-> << BedRow(1, 2, L1, "1", "+"), BedRow(2, 3, R1, "1", "-") >>]

\* the two pairs 10-40/360-390 (pool 1) and 200-230/550-580 (pool 2)
SyntheticPrimers ==
    [pairs |-> << <<L1, R1>>, <<L2, R2>> >>,
     bed |-> << BedRow(10, 40, L1, "1", "+"), BedRow(360, 390, R1, "1", "-"),
                BedRow(200, 230, L2, "2", "+"), BedRow(550, 580, R2, "2", "-") >>]

\* R1 is named in two rows of the pairs file
SharedPrimers ==
    [pairs |-> << <<L1, R1>>, <<L2, R1>> >>,
     bed |-> << BedRow(0, 1, L1, "1", "+"), BedRow(2, 3, R1, "1", "-"),
                BedRow(1, 2, L2, "2", "+") >>]

\* a pool the plot has no colour for
ThirdPoolPrimers ==
    [pairs |-> << <<L1, R1>> >>,
     bed |-> << BedRow(0, 1, L1, "3", "+"), BedRow(2, 3, R1, "3", "-") >>]

\* every primer at 1..1: the amplicon region has length 0
PointPrimers ==
    [pairs |-> << <<L1, R1>> >>,
     bed |-> << BedRow(1, 1, L1, "1", "+"), BedRow(1, 1, R1, "1", "-") >>]

\* the reverse primer upstream of the forward primer
ReversedPrimers ==
    [pairs |-> << <<L1, R1>> >>,
     bed |-> << BedRow(2, 3, L1, "1", "+"), BedRow(0, 1, R1, "1", "-") >>]

\* L2 has no row in the pairs file
UnpairedPrimers ==
    [pairs |-> << <<L1, R1>> >>,
     bed |-> << BedRow(0, 1, L1, "1", "+"), BedRow(2, 3, R1, "1", "-"),
                BedRow(1, 2, L2, "2", "+") >>]

\* R2 is named as a pair and has no row in the primer table
AbsentPairPrimers ==
    [pairs |-> << <<L1, R1>>, <<L2, R2>> >>,
     bed |-> << BedRow(0, 1, L1, "1", "+"), BedRow(2, 3, R1, "1", "-"),
                BedRow(1, 2, L2, "2", "+") >>]

\* a name with fewer fields than the amplicon number's offset
ShortNamePrimers ==
    [pairs |-> << <<ShortName, R1>> >>,
     bed |-> << BedRow(0, 1, ShortName, "1", "+"), BedRow(2, 3, R1, "1", "-") >>]

\* a row of the pairs file with one field
BadPairsRow ==
    [pairs |-> << <<L1>> >>,
     bed |-> << BedRow(0, 1, L1, "1", "+") >>]

NoPrimers == [pairs |-> <<>>, bed |-> <<>>]

PrimerInputs ==
    {TiledPrimers, ShiftedPrimers, SyntheticPrimers, SharedPrimers, ThirdPoolPrimers,
     PointPrimers, ReversedPrimers, UnpairedPrimers, AbsentPairPrimers,
     ShortNamePrimers, BadPairsRow, NoPrimers}

\* the rows samtools depth prints for positions 1..reflen: ordered by
\* position, depth[p] = -1 standing for a position it prints no row for
RECURSIVE DepthRowsFrom(_, _, _)
DepthRowsFrom(depth, p, reflen) ==
    IF p > reflen THEN <<>>
    ELSE (IF depth[p] < 0 THEN <<>> ELSE << [pos |-> p, depth |-> depth[p]] >>)
         \o DepthRowsFrom(depth, p + 1, reflen)

DepthOutputs(reflen) ==
    {DepthRowsFrom(depth, 1, reflen) : depth \in [1..reflen -> -1..MaxDepth]}

Symbols == {"A", "N", "n"}
Consensus == UNION {[1..n -> Symbols] : n \in 0..MaxSeqLen}

\* args.sample, args.fasta, args.bam, and the text samtools view -c prints
SampleName == "S"
FastaPath == "S.fa"
BamPath == "S.bam"
ReadCountText == "7"

\* ---------------------------------------------------------------- state
VARIABLES
    primer_pairs_file, primer_bed_file, ref_length, depth_pos, min_depth, fasta,
    pc, error, failed_in,
    primers, amplicons, lowest_amplicon_start, highest_amplicon_end,
    depth_covered_bases, pct_covered_bases, depth_coverage,
    depth_amplicon_covered_bases, amplicon_length, pct_amplicon_covered_bases,
    num_reads, pct_N_bases, largest_N_gap, qc_pass,
    amplicon_average_depths, qc_line,
    csv_written, csv_header, csv_row,
    N_density, plot_written, plot_depth

primerfiles == <<primer_pairs_file, primer_bed_file>>
depthfiles == <<ref_length, depth_pos>>
resolved == <<primers, amplicons, lowest_amplicon_start, highest_amplicon_end>>
depthvars == <<depth_covered_bases, pct_covered_bases, depth_coverage,
               depth_amplicon_covered_bases, amplicon_length,
               pct_amplicon_covered_bases, num_reads>>
ambigvars == <<pct_N_bases, largest_N_gap, qc_pass>>
csvvars == <<qc_line, csv_written, csv_header, csv_row>>
plotvars == <<N_density, plot_written, plot_depth>>
vars == <<primerfiles, depthfiles, min_depth, fasta, pc, error, failed_in, resolved, depthvars, ambigvars,
          amplicon_average_depths, csvvars, plotvars>>

\* args is parsed; a local that main has not assigned yet, and a file it has
\* not read yet, hold a placeholder
Init ==
    /\ min_depth \in 1..MaxDepth
    /\ primer_pairs_file = <<>>
    /\ primer_bed_file = <<>>
    /\ ref_length = 0
    /\ depth_pos = <<>>
    /\ fasta = <<>>
    /\ pc = "resolve"
    /\ error = "none"
    /\ failed_in = "none"
    /\ primers = <<>>
    /\ amplicons = <<>>
    /\ lowest_amplicon_start = 0
    /\ highest_amplicon_end = 0
    /\ depth_covered_bases = 0
    /\ pct_covered_bases = FloatV(0, 1)
    /\ depth_coverage = IntV(0)
    /\ depth_amplicon_covered_bases = 0
    /\ amplicon_length = 0
    /\ pct_amplicon_covered_bases = FloatV(0, 1)
    /\ num_reads = ""
    /\ pct_N_bases = IntV(0)
    /\ largest_N_gap = 0
    /\ qc_pass = ""
    /\ amplicon_average_depths = <<>>
    /\ qc_line = <<>>
    /\ csv_written = FALSE
    /\ csv_header = <<>>
    /\ csv_row = <<>>
    /\ N_density = <<>>
    /\ plot_written = FALSE
    /\ plot_depth = <<>>

\* an uncaught exception ends the run
Abort(e, fn) ==
    /\ pc' = "aborted"
    /\ error' = e
    /\ failed_in' = fn

Continue(next) ==
    /\ pc' = next
    /\ UNCHANGED <<error, failed_in>>

\* main, lines 232-237, on the primer files it finds
ResolvePrimers ==
    /\ pc = "resolve"
    /\ \E p \in PrimerInputs :
          /\ primer_pairs_file' = p.pairs
          /\ primer_bed_file' = p.bed
    /\ LET pr == read_primers(primer_bed_file', primer_pairs_file')
           ar == primers_to_amplicons(pr.val)
       IN  IF pr.exc # "none"
           THEN Abort(pr.exc, "read_primers") /\ UNCHANGED resolved
           ELSE IF ar.exc # "none"
           THEN /\ Abort(ar.exc, "primers_to_amplicons")
                /\ primers' = pr.val
                /\ UNCHANGED <<amplicons, lowest_amplicon_start, highest_amplicon_end>>
           ELSE IF Len(pr.val) = 0
           THEN /\ Abort("ValueError", "main")
                /\ primers' = pr.val
                /\ amplicons' = ar.val
                /\ UNCHANGED <<lowest_amplicon_start, highest_amplicon_end>>
           ELSE /\ Continue("depth")
                /\ primers' = pr.val
                /\ amplicons' = ar.val
                /\ lowest_amplicon_start' = LowestStart(pr.val)
                /\ highest_amplicon_end' = HighestEnd(pr.val)
    /\ UNCHANGED <<depthfiles, min_depth, fasta, depthvars, ambigvars,
                   amplicon_average_depths, csvvars, plotvars>>

\* main, lines 241-255, on the reference length and the depth rows it reads
\* and on samtools view -c exiting with status 0 or not
DepthCalcs ==
    /\ pc = "depth"
    /\ ref_length' \in 0..MaxRefLen
    /\ depth_pos' \in DepthOutputs(ref_length')
    /\ LET covered == get_covered_pos(depth_pos', min_depth)
           med == get_median_depth(depth_pos')
           ac == get_amplicon_covered_pos(depth_pos', min_depth,
                    lowest_amplicon_start, highest_amplicon_end)
       IN  /\ depth_covered_bases' = covered
           /\ IF ref_length' = 0
              THEN /\ Abort("ZeroDivisionError", "main")
                   /\ UNCHANGED <<pct_covered_bases, depth_coverage,
                                  depth_amplicon_covered_bases, amplicon_length,
                                  pct_amplicon_covered_bases, num_reads>>
              ELSE /\ pct_covered_bases' = FloatV(covered * 100, ref_length')
                   /\ depth_coverage' = med.val
                   /\ depth_amplicon_covered_bases' = ac.counter
                   /\ amplicon_length' = ac.amplicon_length
                   /\ IF ac.amplicon_length = 0
                      THEN /\ Abort("ZeroDivisionError", "main")
                           /\ UNCHANGED <<pct_amplicon_covered_bases, num_reads>>
                      ELSE /\ pct_amplicon_covered_bases' =
                                 FloatV(ac.counter * 100, ac.amplicon_length)
                           /\ \E exit_ok \in BOOLEAN :
                                 IF exit_ok
                                 THEN Continue("ambiguity") /\ num_reads' = ReadCountText
                                 ELSE /\ Abort("CalledProcessError", "get_num_reads")
                                      /\ UNCHANGED num_reads
    /\ UNCHANGED <<primerfiles, min_depth, fasta, resolved, ambigvars,
                   amplicon_average_depths, csvvars, plotvars>>

\* main, lines 258-267, on the consensus it reads
AmbiguityCalcs ==
    /\ pc = "ambiguity"
    /\ fasta' \in Consensus
    /\ LET m == AmbiguityMetrics(fasta')
       IN  /\ pct_N_bases' = m.val.pct_N_bases
           /\ largest_N_gap' = m.val.largest_N_gap
           /\ qc_pass' = m.val.qc_pass
           /\ IF m.exc # "none"
              THEN Abort(m.exc, "get_pct_N_bases")
              ELSE Continue("medians")
    /\ UNCHANGED <<primerfiles, depthfiles, min_depth, resolved, depthvars,
                   amplicon_average_depths, csvvars, plotvars>>

\* main, lines 269-274
AmpliconMedians ==
    /\ pc = "medians"
    /\ LET r == AmpliconMediansFrom(amplicons, 1, depth_pos, <<>>)
       IN  /\ amplicon_average_depths' = r.val
           /\ IF r.exc # "none"
              THEN Abort(r.exc, "calculate_amplicon_median_depth")
              ELSE Continue("write")
    /\ UNCHANGED <<primerfiles, depthfiles, min_depth, fasta, resolved, depthvars,
                   ambigvars, csvvars, plotvars>>

\* main, lines 277-285
BaseQcLine ==
    << [key |-> "sample_name", value |-> StrV(SampleName)],
       [key |-> "pct_N_bases", value |-> StrV(Fmt2(pct_N_bases))],
       [key |-> "pct_covered_bases", value |-> StrV(Fmt2(pct_covered_bases))],
       [key |-> "pct_amplicon_covered_bases",
        value |-> StrV(Fmt2(pct_amplicon_covered_bases))],
       [key |-> "longest_no_N_run", value |-> IntV(largest_N_gap)],
       [key |-> "num_aligned_reads", value |-> StrV(num_reads)],
       [key |-> "median_depth_coverage", value |-> depth_coverage],
       [key |-> "fasta", value |-> StrV(FastaPath)],
       [key |-> "bam", value |-> StrV(BamPath)] >>

HasKey(line, k) == \E i \in 1..Len(line) : line[i].key = k

\* qc_line[key] = value
PutField(line, k, v) ==
    IF HasKey(line, k)
    THEN [i \in 1..Len(line) |-> IF line[i].key = k THEN [key |-> k, value |-> v] ELSE line[i]]
    ELSE Append(line, [key |-> k, value |-> v])

\* main, lines 288-289
RECURSIVE AddAmpliconFields(_, _, _)
AddAmpliconFields(line, avgs, i) ==
    IF i > Len(avgs) THEN line
    ELSE AddAmpliconFields(
            PutField(line,
                     "amplicon_" \o JoinChars(avgs[i].number) \o "_median_depth",
                     avgs[i].depth),
            avgs, i + 1)

\* main, lines 277-296: the record, then the header and the row of the file
WriteRecord ==
    /\ pc = "write"
    /\ LET line == AddAmpliconFields(BaseQcLine, amplicon_average_depths, 1)
       IN  /\ qc_line' = line
           /\ csv_written' = TRUE
           /\ csv_header' = [i \in 1..Len(line) |-> line[i].key]
           /\ csv_row' = [i \in 1..Len(line) |-> Render(line[i].value)]
    /\ Continue("plot")
    /\ UNCHANGED <<primerfiles, depthfiles, min_depth, fasta, resolved, depthvars,
                   ambigvars, amplicon_average_depths, plotvars>>

\* make_qc_plot raises on an amplicon whose pool has no colour
PlotFails(as) == \E i \in 1..Len(as) : as[i].pool \notin amplicon_pool_colors

\* main, lines 298-299
MakePlot ==
    /\ pc = "plot"
    /\ N_density' = sliding_window_N_density(fasta, SlidingWindow)
    /\ plot_depth' = DepthSeries(depth_pos, ref_length)
    /\ IF PlotFails(amplicons)
       THEN Abort("KeyError", "make_qc_plot") /\ UNCHANGED plot_written
       ELSE Continue("done") /\ plot_written' = TRUE
    /\ UNCHANGED <<primerfiles, depthfiles, min_depth, fasta, resolved, depthvars,
                   ambigvars, amplicon_average_depths, csvvars>>

Next ==
    \/ ResolvePrimers
    \/ DepthCalcs
    \/ AmbiguityCalcs
    \/ AmpliconMedians
    \/ WriteRecord
    \/ MakePlot

Spec == Init /\ [][Next]_vars

Terminated == pc \in {"done", "aborted"}

\* ------------------------------------------------- how far a run has got
FailedAfterAmbiguity ==
    pc = "aborted" /\ failed_in \in {"calculate_amplicon_median_depth", "make_qc_plot"}

\* read_primers and primers_to_amplicons have returned
Resolved ==
    pc # "resolve" /\ failed_in \notin {"read_primers", "primers_to_amplicons"}

\* the depth calculations of main have all been evaluated
DepthComputed ==
    \/ pc \in {"ambiguity", "medians", "write", "plot", "done"}
    \/ pc = "aborted" /\ failed_in \in {"get_num_reads", "get_pct_N_bases"}
    \/ FailedAfterAmbiguity

\* the consensus has been read and its metrics attempted
AmbiguityAttempted ==
    \/ pc \in {"medians", "write", "plot", "done"}
    \/ pc = "aborted" /\ failed_in = "get_pct_N_bases"
    \/ FailedAfterAmbiguity

\* the loop over the amplicons has been entered
MediansAttempted ==
    \/ pc \in {"write", "plot", "done"}
    \/ FailedAfterAmbiguity

PlotAttempted ==
    \/ pc = "done"
    \/ pc = "aborted" /\ failed_in = "make_qc_plot"

CsvField(k) == csv_row[CHOOSE i \in 1..Len(csv_header) : csv_header[i] = k]
QcField(k) == qc_line[CHOOSE i \in 1..Len(qc_line) : qc_line[i].key = k].value

\* a = b as numbers
NumEq(a, b) == a.n * b.d = b.n * a.d

\* ---------------------------------------------------------------- claims

\* C1: every QC file main writes has a column headed qc_pass, that column is
\* the last of the header, and the data row holds TRUE or FALSE in it.
C1_QcPassFinalColumn ==
    csv_written =>
        /\ \E i \in 1..Len(csv_header) : csv_header[i] = "qc_pass"
        /\ csv_header[Len(csv_header)] = "qc_pass"
        /\ csv_row[Len(csv_row)] \in {"TRUE", "FALSE"}

\* C2: when a run has ended, the QC record and the plot have both been
\* written or neither has.
C2_AllOrNothing ==
    Terminated => (csv_written <=> plot_written)

NoOverlap(a) ==
    \A i \in 1..Len(depth_pos) : ~(a.start <= depth_pos[i].pos /\ depth_pos[i].pos <= a.end)

\* C3: for an amplicon no depth row lies in, empty depth rows or not,
\* calculate_amplicon_median_depth returns 0 and does not raise.
C3_MedianZeroWithoutOverlap ==
    MediansAttempted =>
        \A i \in 1..Len(amplicons) :
            NoOverlap(amplicons[i]) =>
                /\ failed_in # "calculate_amplicon_median_depth"
                /\ \E j \in 1..Len(amplicon_average_depths) :
                      /\ amplicon_average_depths[j].number = amplicons[i].number
                      /\ amplicon_average_depths[j].depth = IntV(0)

IsN(c) == c \in {"N", "n"}

\* C4: get_largest_N_gap of a non-empty consensus of length L is L when the
\* consensus holds no N, and 0 when every symbol of it is an N.
C4_LargestGapBoundaries ==
    (AmbiguityAttempted /\ Len(fasta) > 0) =>
        /\ (\A i \in 1..Len(fasta) : ~IsN(fasta[i])) => largest_N_gap = Len(fasta)
        /\ (\A i \in 1..Len(fasta) : IsN(fasta[i])) => largest_N_gap = 0

\* C5: with a reference of length 0 or an amplicon region of length 0, main
\* does not end in a division by zero.
C5_ZeroDenominatorGuarded ==
    (/\ Resolved
     /\ pc # "depth"
     /\ ref_length = 0 \/ highest_amplicon_end - lowest_amplicon_start = 0)
        => ~(error = "ZeroDivisionError" /\ failed_in = "main")

\* C6: for a consensus of length 0 the ambiguity analysis raises nothing,
\* the record reports pct_N_bases as 0.00 and longest_no_N_run as 0, and the
\* sliding-window density series is empty.
C6_EmptyConsensus ==
    /\ (AmbiguityAttempted /\ Len(fasta) = 0) =>
          /\ failed_in # "get_pct_N_bases"
          /\ error # "ZeroDivisionError"
          /\ largest_N_gap = 0
    /\ (csv_written /\ Len(fasta) = 0) =>
          /\ CsvField("pct_N_bases") = "0.00"
          /\ CsvField("longest_no_N_run") = "0"
          /\ QcField("longest_no_N_run") = IntV(0)
    /\ (PlotAttempted /\ Len(fasta) = 0) => N_density = <<>>

\* an empty consensus went through the whole of main
C6_Witness ==
    /\ pc = "done"
    /\ Len(fasta) = 0
    /\ csv_written
    /\ CsvField("pct_N_bases") = "0.00"
    /\ N_density = <<>>

\* the fixed-length series: one row per position 1..ref_length, depth 0
\* where the depth rows name none
SeriesRows ==
    LET series == DepthSeries(depth_pos, ref_length)
    IN  [p \in 1..ref_length |-> [pos |-> p, depth |-> series[p]]]

SeriesMedian(rows) == IF Len(rows) = 0 THEN IntV(0) ELSE Median(DepthValues(rows)).val

InAmplicon(a, r) == a.start <= r.pos /\ r.pos <= a.end

\* C7: the genome-wide median depth and every per-amplicon median depth of
\* the QC record are the medians over the fixed-length series in which a
\* position without a depth row has depth 0.
C7_MediansOverFixedSeries ==
    csv_written =>
        /\ NumEq(QcField("median_depth_coverage"), SeriesMedian(SeriesRows))
        /\ \A i \in 1..Len(amplicons) :
              NumEq(QcField("amplicon_" \o JoinChars(amplicons[i].number) \o "_median_depth"),
                    SeriesMedian(SelectSeq(SeriesRows,
                                           LAMBDA r : InAmplicon(amplicons[i], r))))

PairOf == ReadPairs(primer_pairs_file).val

\* the forward primer an amplicon was built from: the last one, in the order
\* of the primer table, that carries its number
DerivingPrimer(num) ==
    LET idx == {i \in 1..Len(primers) :
                    IsForward(primers[i]) /\ primers[i].amplicon_number = num}
    IN  primers[CHOOSE i \in idx : \A j \in idx : j <= i]

\* C8: whenever resolution succeeds, each amplicon comes from a forward
\* primer F and a primer R with pair[F] = R and pair[R] = F.
C8_PairSymmetry ==
    Resolved =>
        \A i \in 1..Len(amplicons) :
            LET F == DerivingPrimer(amplicons[i].number)
                R == F.pair_name
            IN  /\ PairOf[F.name] = R
                /\ PairOf[R] = F.name

SyntheticResolved ==
    /\ Resolved
    /\ primer_pairs_file = SyntheticPrimers.pairs
    /\ primer_bed_file = SyntheticPrimers.bed

\* C9, as stated: the synthetic primer set resolves to exactly 2 amplicons,
\* of lengths 350 and 350.
C9_SyntheticLengths350 ==
    SyntheticResolved =>
        /\ Len(amplicons) = 2
        /\ \A i \in 1..Len(amplicons) : amplicons[i].length = 350

\* C9, amended: the synthetic primer set resolves to exactly 2 amplicons, of
\* lengths 320 and 320 (forward primer's end 40 to reverse primer's start
\* 360, and 230 to 550).
C9_SyntheticLengths320 ==
    SyntheticResolved =>
        /\ Len(amplicons) = 2
        /\ amplicons[1].number # amplicons[2].number
        /\ \A i \in 1..Len(amplicons) :
              /\ amplicons[i].length = 320
              /\ amplicons[i].end - amplicons[i].start = 320

\* the synthetic primer set has been resolved into its two amplicons
C9_Witness ==
    /\ SyntheticResolved
    /\ pc = "depth"
    /\ Len(amplicons) = 2
    /\ amplicons[1].start = 40 /\ amplicons[1].end = 360
    /\ amplicons[2].start = 230 /\ amplicons[2].end = 550

FullDepth ==
    /\ Len(depth_pos) = ref_length
    /\ \A p \in 1..ref_length : depth_pos[p].pos = p

PrimersWellFormed == \A i \in 1..Len(primers) : primers[i].start < primers[i].end

Percentage(v) == v.d > 0 /\ 0 <= v.n /\ v.n <= 100 * v.d

\* C10: when the depth rows name each position 1..ref_length once and every
\* primer has start < end, the covered counts do not exceed their
\* denominators and both percentages lie between 0 and 100.
C10_PercentagesBounded ==
    (DepthComputed /\ FullDepth /\ PrimersWellFormed) =>
        /\ depth_covered_bases <= ref_length
        /\ depth_amplicon_covered_bases <= amplicon_length
        /\ Percentage(pct_covered_bases)
        /\ Percentage(pct_amplicon_covered_bases)

====
